---- MODULE Spec2Model ----
(***************************************************************************)
(* Model of backend/server.js: the POST /api/analyze handler of the        *)
(* YouTube content analyser, its helpers extractVideoId, getYouTubeVideoData,*)
(* getTranscript, callGroq and analyzeCoverage.                             *)
(*                                                                         *)
(* Texts that the code parses (the URL, the subtopic labels, the reply of  *)
(* the completion service) are sequences of one-character strings, so that *)
(* the two regular expressions of the code are computed character by       *)
(* character.  Texts the code only passes along (title, description,       *)
(* transcript, topic) are TLA+ strings.                                     *)
(***************************************************************************)
EXTENDS Integers, Sequences, FiniteSets, TLC

VARIABLES
  pc,          \* per request: where the async handler is suspended
  class,       \* per request: the kind of body the client sent (never read by the handler)
  videoId,     \* per request: const videoId            (server.js:139)
  subtopics,   \* per request: customSubtopics           (server.js:133)
  videoData,   \* per request: const videoData           (server.js:142)
  transcript,  \* per request: const transcript          (server.js:143)
  responses,   \* per request: the responses written to res, in order
  log,         \* per request: the external calls issued and their outcomes, in order
  aStage,      \* analyzeCoverage taken alone: "input" or "returned"
  aSubtopics,  \* analyzeCoverage taken alone: its subtopics argument
  aOutcome,    \* analyzeCoverage taken alone: what callGroq did
  aReport      \* analyzeCoverage taken alone: the report returned

vars == <<pc, class, videoId, subtopics, videoData, transcript, responses, log,
          aStage, aSubtopics, aOutcome, aReport>>

serverVars == <<pc, class, videoId, subtopics, videoData, transcript, responses, log>>

analyzerVars == <<aStage, aSubtopics, aOutcome, aReport>>

-----------------------------------------------------------------------------
(* Bounds *)

\* Number of requests the event loop interleaves.
NumReqs == 2

\* Longest subtopic list handed to analyzeCoverage taken alone.
MaxSubtopics == 3

Reqs == 1..NumReqs

-----------------------------------------------------------------------------
(* Characters *)

Null == <<"null">>

Min(S) == CHOOSE x \in S : \A y \in S : x <= y

Max(S) == CHOOSE x \in S : \A y \in S : x >= y

Digits == <<"0","1","2","3","4","5","6","7","8","9">>

DigitSet == {Digits[i] : i \in 1..10}

\* \d
IsDigit(c) == c \in DigitSet

\* \s, over the characters of the model
IsSpace(c) == c \in {" ", "\n", "\t", "\r"}

\* what . does not match
IsLineTerminator(c) == c \in {"\n", "\r"}

UpperCase == <<"A","B","C","D","E","F","G","H","I","J","K","L","M",
               "N","O","P","Q","R","S","T","U","V","W","X","Y","Z">>

LowerCase == <<"a","b","c","d","e","f","g","h","i","j","k","l","m",
               "n","o","p","q","r","s","t","u","v","w","x","y","z">>

\* \w
IsWordChar(c) ==
  \/ IsDigit(c)
  \/ c = "_"
  \/ \E i \in 1..26 : UpperCase[i] = c \/ LowerCase[i] = c

\* Each upper-case letter's lower-case letter.
ToLower ==
  [c \in {UpperCase[i] : i \in 1..26} |->
     LowerCase[CHOOSE i \in 1..26 : UpperCase[i] = c]]

\* Canonical form of a character under the i flag.
Fold(c) == IF c \in DOMAIN ToLower THEN ToLower[c] ELSE c

\* The literal lit occurs in s at position p (case-sensitive).
LitAt(s, p, lit) ==
  /\ p + Len(lit) - 1 <= Len(s)
  /\ \A i \in 1..Len(lit) : s[p + i - 1] = lit[i]

\* The literal lit occurs in s at position p under the i flag.
LitAtI(s, p, lit) ==
  /\ p + Len(lit) - 1 <= Len(s)
  /\ \A i \in 1..Len(lit) : Fold(s[p + i - 1]) = Fold(lit[i])

RECURSIVE SpaceRunEnd(_, _)
\* \s* from position p: the position after the white space.
SpaceRunEnd(s, p) ==
  IF p <= Len(s) /\ IsSpace(s[p]) THEN SpaceRunEnd(s, p + 1) ELSE p

RECURSIVE DigitRunEnd(_, _)
\* \d* from position p: the position after the digits.
DigitRunEnd(s, p) ==
  IF p <= Len(s) /\ IsDigit(s[p]) THEN DigitRunEnd(s, p + 1) ELSE p

\* String.prototype.trim
Trim(s) ==
  LET keep == {i \in 1..Len(s) : ~IsSpace(s[i])}
  IN  IF keep = {} THEN <<>> ELSE SubSeq(s, Min(keep), Max(keep))

RECURSIVE parseInt(_)
\* parseInt of a run of decimal digits
parseInt(ds) ==
  IF ds = <<>> THEN 0
  ELSE 10 * parseInt(SubSeq(ds, 1, Len(ds) - 1))
       + ((CHOOSE i \in 1..10 : Digits[i] = ds[Len(ds)]) - 1)

-----------------------------------------------------------------------------
(* extractVideoId, server.js:23-27 *)

\* Length the token must have to be taken as a video identifier.
VideoIdLength == 11

M_youtube == <<"y","o","u","t","u">>
M_be      == <<"b","e","/">>
M_v       == <<"v","/">>
M_embed   == <<"e","m","b","e","d","/">>
M_watch   == <<"w","a","t","c","h","?">>

\* Length of the text the group ((youtu.be\/)|(v\/)|(\/u\/\w\/)|(embed\/)|(watch\?))
\* matches at position p of url, 0 if none of its alternatives matches there.
MarkerLength(url, p) ==
  IF /\ LitAt(url, p, M_youtube)
     /\ p + 5 <= Len(url) /\ ~IsLineTerminator(url[p + 5])
     /\ LitAt(url, p + 6, M_be)
  THEN 9
  ELSE IF LitAt(url, p, M_v) THEN 2
  ELSE IF /\ LitAt(url, p, <<"/","u","/">>)
          /\ p + 3 <= Len(url) /\ IsWordChar(url[p + 3])
          /\ LitAt(url, p + 4, <<"/">>)
  THEN 5
  ELSE IF LitAt(url, p, M_embed) THEN 6
  ELSE IF LitAt(url, p, M_watch) THEN 6
  ELSE 0

RECURSIVE TokenRunEnd(_, _)
\* [^#&?]* from position p: the position after the run.
TokenRunEnd(s, p) ==
  IF p <= Len(s) /\ s[p] \notin {"#", "&", "?"} THEN TokenRunEnd(s, p + 1) ELSE p

\* url.match(regExp)[7], or Null when the expression does not match: the greedy
\* ^.* takes the last marker that no line terminator precedes, \??v?=? each take
\* their character when it is there, and group 7 is the longest run without # & ?.
IdToken(url) ==
  LET starts == {p \in 1..Len(url) :
                   /\ MarkerLength(url, p) > 0
                   /\ \A i \in 1..(p - 1) : ~IsLineTerminator(url[i])}
  IN  IF starts = {} THEN Null
      ELSE LET p  == Max(starts)
               q0 == p + MarkerLength(url, p)
               q1 == IF q0 <= Len(url) /\ url[q0] = "?" THEN q0 + 1 ELSE q0
               q2 == IF q1 <= Len(url) /\ url[q1] = "v" THEN q1 + 1 ELSE q1
               q3 == IF q2 <= Len(url) /\ url[q2] = "=" THEN q2 + 1 ELSE q2
           IN  SubSeq(url, q3, TokenRunEnd(url, q3) - 1)

extractVideoIdNoLength(url) == IdToken(url)

extractVideoId(url) ==
  LET tok == IdToken(url)
  IN  IF tok # Null /\ Len(tok) = VideoIdLength THEN tok ELSE Null

-----------------------------------------------------------------------------
(* The expression new RegExp(`${sub}[\\s\\S]*?Score:\\s*(\\d+)`, 'i'),          *)
(* server.js:96-97.  The label is pasted into the pattern unescaped, so it is *)
(* read as a pattern.  The labels of the model are written with letters,      *)
(* digits, spaces, "." (any character but a line terminator) and "+" (one or  *)
(* more of the atom before it, greedy; with no atom before it the pattern is  *)
(* rejected with a SyntaxError).                                              *)

ScoreToken == <<"S","c","o","r","e",":">>

\* new RegExp(...) throws SyntaxError: Nothing to repeat
PatternThrows(sub) ==
  \E i \in 1..Len(sub) :
    /\ sub[i] = "+"
    /\ (i = 1 \/ sub[i - 1] = "+")

\* One atom of the label against one character of the text, under the i flag.
AtomMatches(c, t) ==
  IF c = "." THEN ~IsLineTerminator(t) ELSE Fold(c) = Fold(t)

\* Score:\s*(\d+) at position j: the digits captured, <<>> if it does not match.
\* \s* and \d+ are greedy, and giving back white space or digits opens no other
\* match, so the capture is the whole digit run after the whole white-space run.
ScoreAt(text, j) ==
  IF ~LitAtI(text, j, ScoreToken) THEN <<>>
  ELSE LET d == SpaceRunEnd(text, j + Len(ScoreToken))
       IN  SubSeq(text, d, DigitRunEnd(text, d) - 1)

\* [\s\S]*?Score:\s*(\d+) from position pos: the lazy star stops at the first
\* position where the rest matches.
RECURSIVE LazyScore(_, _)
LazyScore(text, pos) ==
  IF pos > Len(text) THEN <<>>
  ELSE LET m == ScoreAt(text, pos)
       IN  IF m # <<>> THEN m ELSE LazyScore(text, pos + 1)

RECURSIVE AtomRunEnd(_, _, _)
\* The atom c repeated from position p: the position after the longest run.
AtomRunEnd(c, text, p) ==
  IF p <= Len(text) /\ AtomMatches(c, text[p]) THEN AtomRunEnd(c, text, p + 1) ELSE p

RECURSIVE MatchFrom(_, _, _, _)
RECURSIVE TryCounts(_, _, _, _, _)

\* The backtracking matcher: the label from its k-th character on, then the rest
\* of the pattern, against text from position pos.  The capture of the first
\* match in the engine's order of preference, <<>> if there is none.
MatchFrom(sub, k, text, pos) ==
  IF k > Len(sub) THEN LazyScore(text, pos)
  ELSE IF k + 1 <= Len(sub) /\ sub[k + 1] = "+"
  THEN TryCounts(sub, k, text, pos, AtomRunEnd(sub[k], text, pos) - pos)
  ELSE IF pos <= Len(text) /\ AtomMatches(sub[k], text[pos])
  THEN MatchFrom(sub, k + 1, text, pos + 1)
  ELSE <<>>

\* The greedy + of the atom at k: n repetitions first, then fewer, at least one.
TryCounts(sub, k, text, pos, n) ==
  IF n < 1 THEN <<>>
  ELSE LET r == MatchFrom(sub, k + 2, text, pos + n)
       IN  IF r # <<>> THEN r ELSE TryCounts(sub, k, text, pos, n - 1)

RECURSIVE MatchFromStart(_, _, _)
\* The match is tried from each position of the text in turn, from s on.
MatchFromStart(sub, text, s) ==
  IF s > Len(text) + 1 THEN <<>>
  ELSE LET m == MatchFrom(sub, 1, text, s)
       IN  IF m # <<>> THEN m ELSE MatchFromStart(sub, text, s + 1)

\* responseText.match(regex): match[1] of the leftmost match, <<>> for null.
RegexCapture(sub, text) == MatchFromStart(sub, text, 1)

-----------------------------------------------------------------------------
(* analyzeCoverage, server.js:70-128 *)

\* Score from which a subtopic counts as covered.
CoveredFrom == 50

EvidenceFound  == "Evidence found in transcript."
EvidenceNone   == "No evidence found."
EvidenceFailed == "Failed to analyze coverage."
SummaryFailed  == "Failed to generate coverage analysis."

SummaryOf(n) == "Overall coverage based on " \o ToString(n) \o " subtopics."

\* Math.floor in the place of Math.round.
MathFloor(num, den) == num \div den

\* Math.round of num / den, for num >= 0 and den > 0: halves go up.
MathRound(num, den) == (2 * num + den) \div (2 * den)

RECURSIVE SumScores(_)
SumScores(as) ==
  IF as = <<>> THEN 0 ELSE as[1].coverageScore + SumScores(Tail(as))

\* The callback with -1 for a label that is not found.
SubtopicResultSentinel(sub, responseText) ==
  LET m == RegexCapture(sub, responseText)
  IN  [subtopic      |-> sub,
       coverageScore |-> IF m # <<>> THEN parseInt(m) ELSE -1,
       covered       |-> IF m # <<>> THEN parseInt(m) >= CoveredFrom ELSE FALSE,
       evidence      |-> IF m # <<>> THEN EvidenceFound ELSE EvidenceNone]

\* The callback of subtopics.map, server.js:95-104.
SubtopicResult(sub, responseText) ==
  LET m == RegexCapture(sub, responseText)
  IN  [subtopic      |-> sub,
       coverageScore |-> IF m # <<>> THEN parseInt(m) ELSE 0,
       covered       |-> IF m # <<>> THEN parseInt(m) >= CoveredFrom ELSE FALSE,
       evidence      |-> IF m # <<>> THEN EvidenceFound ELSE EvidenceNone]

\* The catch block, server.js:115-127.
FailureReport(subs) ==
  [overallScore     |-> 0,
   subtopicAnalysis |-> [i \in 1..Len(subs) |->
                           [subtopic      |-> subs[i],
                            coverageScore |-> 0,
                            covered       |-> FALSE,
                            evidence      |-> EvidenceFailed]],
   summary          |-> SummaryFailed]

\* The try block with the labels that are not found left out of the report.
SuccessReportMatchedOnly(subs, responseText) ==
  LET found(sub) == RegexCapture(sub, responseText) # <<>>
      kept == SelectSeq(subs, found)
      analysis == [i \in 1..Len(kept) |-> SubtopicResult(kept[i], responseText)]
  IN  [overallScore     |-> IF kept = <<>> THEN 0
                            ELSE MathRound(SumScores(analysis), Len(analysis)),
       subtopicAnalysis |-> analysis,
       summary          |-> SummaryOf(Len(subs))]

\* The try block after callGroq has returned, server.js:94-114.
SuccessReport(subs, responseText) ==
  LET analysis == [i \in 1..Len(subs) |-> SubtopicResult(subs[i], responseText)]
  IN  [overallScore     |-> MathRound(SumScores(analysis), Len(analysis)),
       subtopicAnalysis |-> analysis,
       summary          |-> SummaryOf(Len(subs))]

\* callGroq, server.js:60-67: the reply's content trimmed; it throws when the
\* request fails or the reply has no choices.
callGroqThrows(outcome) == outcome.kind = "error"

callGroq(outcome) == Trim(outcome.content)

\* What analyzeCoverage returns once callGroq has settled with outcome.  The
\* prompt (server.js:72-90) only feeds the completion service, whose reply is
\* any of the outcomes, and is not part of the state.
analyzeCoverage(subs, outcome) ==
  IF callGroqThrows(outcome) THEN FailureReport(subs)
  ELSE IF \E i \in 1..Len(subs) : PatternThrows(subs[i]) THEN FailureReport(subs)
  ELSE SuccessReport(subs, callGroq(outcome))

-----------------------------------------------------------------------------
(* Sample texts *)

\* https://www.youtube.com/watch?v=dQw4w9WgXcQ
WatchUrl ==
  <<"h","t","t","p","s",":","/","/","w","w","w",".","y","o","u","t","u","b","e",".","c","o",
  "m","/","w","a","t","c","h","?","v","=","d","Q","w","4","w","9","W","g","X","c","Q">>

\* https://www.youtube.com/watch?v=dQw4w9WgXcQ&t=42
WatchUrlWithTime ==
  <<"h","t","t","p","s",":","/","/","w","w","w",".","y","o","u","t","u","b","e",".","c","o",
  "m","/","w","a","t","c","h","?","v","=","d","Q","w","4","w","9","W","g","X","c","Q","&",
  "t","=","4","2">>

\* https://youtu.be/dQw4w9WgXcQ
ShortUrl ==
  <<"h","t","t","p","s",":","/","/","y","o","u","t","u",".","b","e","/","d","Q","w","4","w",
  "9","W","g","X","c","Q">>

\* https://www.youtube.com/embed/dQw4w9WgXcQ
EmbedUrl ==
  <<"h","t","t","p","s",":","/","/","w","w","w",".","y","o","u","t","u","b","e",".","c","o",
  "m","/","e","m","b","e","d","/","d","Q","w","4","w","9","W","g","X","c","Q">>

\* not a url
NotAUrl ==
  <<"n","o","t"," ","a"," ","u","r","l">>

\* https://youtu.be/dQw4w9WgXc
ShortTokenUrl ==
  <<"h","t","t","p","s",":","/","/","y","o","u","t","u",".","b","e","/","d","Q","w","4","w",
  "9","W","g","X","c">>

\* https://www.youtube.com/watch?v=dQw4w9WgXcQZ
LongTokenUrl ==
  <<"h","t","t","p","s",":","/","/","w","w","w",".","y","o","u","t","u","b","e",".","c","o",
  "m","/","w","a","t","c","h","?","v","=","d","Q","w","4","w","9","W","g","X","c","Q","Z">>

\* Topic A
TopicA ==
  <<"T","o","p","i","c"," ","A">>

\* Topic B
TopicB ==
  <<"T","o","p","i","c"," ","B">>

\* Topic C
TopicC ==
  <<"T","o","p","i","c"," ","C">>

\* C++
CPlusPlus ==
  <<"C","+","+">>

\* a.c
DotLabel ==
  <<"a",".","c">>

\* ab+
PlusLabel ==
  <<"a","b","+">>

\* Topic A ... Score: 80 ... Topic B ... Score: 30
ReplyTwoTopics ==
  <<"T","o","p","i","c"," ","A"," ",".",".","."," ","S","c","o","r","e",":"," ","8","0"," ",
  ".",".","."," ","T","o","p","i","c"," ","B"," ",".",".","."," ","S","c","o","r","e",":",
  " ","3","0">>

\* Subtopic: Topic A\nScore: 33\nSubtopic: Topic B\nScore: 34
ReplyPromptFormat ==
  <<"S","u","b","t","o","p","i","c",":"," ","T","o","p","i","c"," ","A","\n","S","c","o",
  "r","e",":"," ","3","3","\n","S","u","b","t","o","p","i","c",":"," ","T","o","p","i","c",
  " ","B","\n","S","c","o","r","e",":"," ","3","4">>

\* Topic B Score: 100 Topic C Score: 50
ReplyTopicsBC ==
  <<"T","o","p","i","c"," ","B"," ","S","c","o","r","e",":"," ","1","0","0"," ","T","o","p",
  "i","c"," ","C"," ","S","c","o","r","e",":"," ","5","0">>

\* topic a score:  7
ReplyLowerCase ==
  <<"t","o","p","i","c"," ","a"," ","s","c","o","r","e",":"," "," ","7">>

\* Topic A Score: 250
ReplyOverRange ==
  <<"T","o","p","i","c"," ","A"," ","S","c","o","r","e",":"," ","2","5","0">>

\* Topic A is covered. Topic B Score: 50
ReplySharedScore ==
  <<"T","o","p","i","c"," ","A"," ","i","s"," ","c","o","v","e","r","e","d","."," ","T","o",
  "p","i","c"," ","B"," ","S","c","o","r","e",":"," ","5","0">>

\* Topic A Score: n/a Score: 49
ReplyScoreWithoutDigits ==
  <<"T","o","p","i","c"," ","A"," ","S","c","o","r","e",":"," ","n","/","a"," ","S","c","o",
  "r","e",":"," ","4","9">>

\* C++ Score: 90
ReplyCPlusPlus ==
  <<"C","+","+"," ","S","c","o","r","e",":"," ","9","0">>

\* axc Score: 61
ReplyAxc ==
  <<"a","x","c"," ","S","c","o","r","e",":"," ","6","1">>

\* abbb Score: 12 ab
ReplyAbbb ==
  <<"a","b","b","b"," ","S","c","o","r","e",":"," ","1","2"," ","a","b">>

\* Score: 95 Topic A
ReplyScoreBeforeLabel ==
  <<"S","c","o","r","e",":"," ","9","5"," ","T","o","p","i","c"," ","A">>

\* No scores here
ReplyNoScores ==
  <<"N","o"," ","s","c","o","r","e","s"," ","h","e","r","e">>

\*   Topic C\nScore:\n 100 \n
ReplyUntrimmed ==
  <<" "," ","T","o","p","i","c"," ","C","\n","S","c","o","r","e",":","\n"," ","1","0","0",
  " ","\n">>

-----------------------------------------------------------------------------
(* What the clients and the three external services may do *)

VideoIdSample == <<"d","Q","w","4","w","9","W","g","X","c","Q">>

Absent == [present |-> FALSE, value |-> <<>>]

Given(v) == [present |-> TRUE, value |-> v]

TopicSample == <<"M","L">>

SubtopicsSample == <<TopicA, TopicB>>

Body(c, url, topic, subs) ==
  [class |-> c, youtubeUrl |-> url, topic |-> topic, customSubtopics |-> subs]

\* The request bodies clients send.  class says what kind of body it is; the
\* handler never reads it.
Bodies ==
  {Body("missingField", Absent, Given(TopicSample), Given(SubtopicsSample)),
   Body("missingField", Given(<<>>), Given(TopicSample), Given(SubtopicsSample)),
   Body("missingField", Given(WatchUrl), Absent, Given(SubtopicsSample)),
   Body("missingField", Given(WatchUrl), Given(TopicSample), Absent),
   Body("missingField", Given(NotAUrl), Absent, Given(<<>>)),
   Body("emptySubtopics", Given(WatchUrl), Given(TopicSample), Given(<<>>)),
   Body("noVideoId", Given(NotAUrl), Given(TopicSample), Given(SubtopicsSample)),
   Body("noVideoId", Given(ShortTokenUrl), Given(TopicSample), Given(SubtopicsSample)),
   Body("noVideoId", Given(LongTokenUrl), Given(TopicSample), Given(SubtopicsSample)),
   Body("valid", Given(WatchUrl), Given(TopicSample), Given(SubtopicsSample)),
   Body("valid", Given(WatchUrlWithTime), Given(TopicSample), Given(SubtopicsSample)),
   Body("valid", Given(ShortUrl), Given(TopicSample), Given(SubtopicsSample)),
   Body("valid", Given(EmbedUrl), Given(TopicSample), Given(SubtopicsSample))}

DescriptionSample == <<"d","e","s","c">>

\* A transcript longer than the preview of the response.
LongTranscript == [i \in 1..520 |-> "a"]

\* The metadata API: the request fails, or answers without items, or answers
\* with a snippet whose description may be empty.
MetadataOutcomes ==
  {[kind |-> "error", description |-> <<>>],
   [kind |-> "noitems", description |-> <<>>],
   [kind |-> "ok", description |-> <<>>],
   [kind |-> "ok", description |-> DescriptionSample]}

\* The transcript service: the request fails, or answers with a transcript that
\* may be empty.
TranscriptOutcomes ==
  {[kind |-> "error", transcript |-> <<>>],
   [kind |-> "ok", transcript |-> <<>>],
   [kind |-> "ok", transcript |-> LongTranscript]}

GroqError == [kind |-> "error", content |-> <<>>]

GroqReply(text) == [kind |-> "reply", content |-> text]

\* The completion service as the handler sees it.
ServerGroqOutcomes == {GroqError, GroqReply(ReplyTwoTopics), GroqReply(ReplyNoScores)}

\* The completion service as analyzeCoverage taken alone sees it.
Replies ==
  {ReplyTwoTopics, ReplyPromptFormat, ReplyTopicsBC, ReplyLowerCase, ReplyOverRange,
   ReplySharedScore, ReplyScoreWithoutDigits, ReplyCPlusPlus, ReplyAxc, ReplyAbbb,
   ReplyScoreBeforeLabel, ReplyNoScores, ReplyUntrimmed, <<>>}

GroqOutcomes == {GroqError} \cup {GroqReply(t) : t \in Replies}

Labels == {TopicA, TopicB, TopicC, CPlusPlus, DotLabel, PlusLabel}

\* The non-empty subtopic lists of at most MaxSubtopics labels.
SubtopicLists == UNION {[1..n -> Labels] : n \in 1..MaxSubtopics}

-----------------------------------------------------------------------------
(* analyzeCoverage taken alone *)

NoReport == [overallScore |-> 0, subtopicAnalysis |-> <<>>, summary |-> ""]

ServerInit ==
  /\ pc = [r \in Reqs |-> "idle"]
  /\ class = [r \in Reqs |-> "none"]
  /\ videoId = [r \in Reqs |-> Null]
  /\ subtopics = [r \in Reqs |-> <<>>]
  /\ videoData = [r \in Reqs |-> Null]
  /\ transcript = [r \in Reqs |-> <<>>]
  /\ responses = [r \in Reqs |-> <<>>]
  /\ log = [r \in Reqs |-> <<>>]

AnalyzerIdle ==
  /\ aStage = "unused"
  /\ aSubtopics = <<>>
  /\ aOutcome = GroqError
  /\ aReport = NoReport

AnalyzeInit ==
  /\ ServerInit
  /\ aStage = "input"
  /\ aSubtopics \in SubtopicLists
  /\ aOutcome \in GroqOutcomes
  /\ aReport = NoReport

\* analyzeCoverage(transcript, subtopics, topic) runs to its return.
AnalyzeCoverageCall ==
  /\ aStage = "input"
  /\ aReport' = analyzeCoverage(aSubtopics, aOutcome)
  /\ aStage' = "returned"
  /\ UNCHANGED <<aSubtopics, aOutcome>>
  /\ UNCHANGED serverVars

AnalyzeNext == AnalyzeCoverageCall

AnalyzeSpec == AnalyzeInit /\ [][AnalyzeNext]_vars

-----------------------------------------------------------------------------
(* The handler of POST /api/analyze, server.js:131-166.  A request runs from  *)
(* one await to the next without interruption; between two awaits of one      *)
(* request the event loop may run any other request.  Of the body, the        *)
(* handler keeps what it reads again: videoId and customSubtopics.            *)

ErrorRequired == "YouTube URL, topic, and at least one subtopic are required."
ErrorInvalidUrl == "Invalid YouTube URL."
ErrorDetails == "Please check API keys and try again."
NoTranscriptText ==
  <<"N","o"," ","t","r","a","n","s","c","r","i","p","t"," ",
    "a","v","a","i","l","a","b","l","e",".">>

\* Characters of the transcript the response carries.
PreviewLength == 500

\* !x for a field of the body: absent, or the empty string.
Falsy(f) == ~f.present \/ f.value = <<>>

\* res.status(code).json(body)
Respond(r, code, body) ==
  responses' = [responses EXCEPT ![r] = Append(@, [status |-> code, body |-> body])]

\* console.error, then res.status(500).json(...), server.js:162-165.
Respond500(r, message) ==
  Respond(r, 500, [error |-> message, details |-> ErrorDetails])

\* One entry of a request's log: an external call issued (what = "call"), or
\* how it settled, with the text the service returned.
Event(svc, what, data) == <<svc, what, data>>

Call(svc) == Event(svc, "call", <<>>)

Logged(r, events) == log' = [log EXCEPT ![r] = @ \o events]

\* The message of the error getYouTubeVideoData throws, server.js:31-35.
MetadataMessage(o) ==
  IF o.kind = "error" THEN "Request failed with status code 403"
  ELSE "Video not found"

getYouTubeVideoDataThrows(o) == o.kind # "ok"

\* The value getYouTubeVideoData returns, server.js:37-44.
getYouTubeVideoData(o) ==
  [title |-> "title", description |-> o.description, channelTitle |-> "channel",
   publishedAt |-> "2020-01-01T00:00:00Z", thumbnail |-> "thumbnail"]

\* transcript.substring(0, 500) + (transcript.length > 500 ? '...' : '')
TranscriptPreview(t) ==
  IF Len(t) > PreviewLength
  THEN SubSeq(t, 1, PreviewLength) \o <<".", ".", ".">>
  ELSE t

WatchPrefix ==
  <<"h","t","t","p","s",":","/","/","w","w","w",".","y","o","u","t","u","b","e",".",
    "c","o","m","/","w","a","t","c","h","?","v","=">>

\* The body of the 200 response, server.js:147-160.
SuccessBody(r, analysis) ==
  [success    |-> TRUE,
   videoInfo  |-> [videoId      |-> videoId[r],
                   title        |-> videoData[r].title,
                   channelTitle |-> videoData[r].channelTitle,
                   publishedAt  |-> videoData[r].publishedAt,
                   thumbnail    |-> videoData[r].thumbnail,
                   youtubeUrl   |-> WatchPrefix \o videoId[r]],
   transcript |-> TranscriptPreview(transcript[r]),
   subtopics  |-> subtopics[r],
   analysis   |-> analysis]

\* The body passes the checks of server.js:135.
FieldsPresent(b) ==
  ~(Falsy(b.youtubeUrl) \/ Falsy(b.topic) \/ ~b.customSubtopics.present
      \/ Len(b.customSubtopics.value) = 0)

\* return res.status(400).json({ error: message })
Reject(r, message) ==
  /\ Respond(r, 400, [error |-> message])
  /\ pc' = [pc EXCEPT ![r] = "done"]
  /\ UNCHANGED <<videoId, subtopics, log>>

\* The body is accepted; the handler issues calls and is suspended.
Proceed(r, b, calls) ==
  /\ videoId' = [videoId EXCEPT ![r] = extractVideoId(b.youtubeUrl.value)]
  /\ subtopics' = [subtopics EXCEPT ![r] = b.customSubtopics.value]
  /\ Logged(r, calls)
  /\ pc' = [pc EXCEPT ![r] = "awaitMetadata"]
  /\ UNCHANGED responses

\* The handler with the metadata and the transcript call issued together.
PostAnalyzeConcurrent(r) ==
  /\ pc[r] = "idle"
  /\ \E b \in Bodies :
       /\ class' = [class EXCEPT ![r] = b.class]
       /\ IF ~FieldsPresent(b) THEN Reject(r, ErrorRequired)
          ELSE IF extractVideoId(b.youtubeUrl.value) = Null
          THEN Reject(r, ErrorInvalidUrl)
          ELSE Proceed(r, b, <<Call("metadata"), Call("transcript")>>)
  /\ UNCHANGED <<videoData, transcript>>
  /\ UNCHANGED analyzerVars

\* The handler with the return of server.js:136 left out: after the 400 it runs
\* on into its catch block, which answers again.
PostAnalyzeNoReturn(r) ==
  /\ pc[r] = "idle"
  /\ \E b \in Bodies :
       /\ class' = [class EXCEPT ![r] = b.class]
       /\ IF ~FieldsPresent(b)
          THEN /\ responses' = [responses EXCEPT ![r] =
                                  @ \o <<[status |-> 400, body |-> [error |-> ErrorRequired]],
                                         [status |-> 500,
                                          body |-> [error |-> "url.match is not a function",
                                                    details |-> ErrorDetails]]>>]
               /\ pc' = [pc EXCEPT ![r] = "done"]
               /\ UNCHANGED <<videoId, subtopics, log>>
          ELSE IF extractVideoId(b.youtubeUrl.value) = Null
          THEN Reject(r, ErrorInvalidUrl)
          ELSE Proceed(r, b, <<Call("metadata")>>)
  /\ UNCHANGED <<videoData, transcript>>
  /\ UNCHANGED analyzerVars

\* The request arrives; the handler runs to its first await, server.js:132-142.
PostAnalyze(r) ==
  /\ pc[r] = "idle"
  /\ \E b \in Bodies :
       /\ class' = [class EXCEPT ![r] = b.class]
       /\ IF ~FieldsPresent(b) THEN Reject(r, ErrorRequired)
          ELSE IF extractVideoId(b.youtubeUrl.value) = Null
          THEN Reject(r, ErrorInvalidUrl)
          ELSE Proceed(r, b, <<Call("metadata")>>)
  /\ UNCHANGED <<videoData, transcript>>
  /\ UNCHANGED analyzerVars

\* The metadata call of server.js:142 settles; on success getTranscript starts
\* and issues the transcript call, server.js:50.
MetadataSettled(r) ==
  /\ pc[r] = "awaitMetadata"
  /\ \E o \in MetadataOutcomes :
       IF getYouTubeVideoDataThrows(o)
       THEN /\ Logged(r, <<Event("metadata", o.kind, <<>>)>>)
            /\ Respond500(r, MetadataMessage(o))
            /\ pc' = [pc EXCEPT ![r] = "done"]
            /\ UNCHANGED videoData
       ELSE /\ videoData' = [videoData EXCEPT ![r] = getYouTubeVideoData(o)]
            /\ Logged(r, <<Event("metadata", "ok", o.description), Call("transcript")>>)
            /\ pc' = [pc EXCEPT ![r] = "awaitTranscript"]
            /\ UNCHANGED responses
  /\ UNCHANGED <<class, videoId, subtopics, transcript>>
  /\ UNCHANGED analyzerVars

\* getTranscript has its text and returns; analyzeCoverage starts and issues
\* the completion call, server.js:143-145 and 71-92.
StartAnalysis(r, text, events) ==
  /\ transcript' = [transcript EXCEPT ![r] = text]
  /\ Logged(r, events \o <<Call("completion")>>)
  /\ pc' = [pc EXCEPT ![r] = "awaitCompletion"]
  /\ UNCHANGED responses

\* getTranscript without the test of response.data.transcript.
TranscriptSettledAnyTranscript(r) ==
  /\ pc[r] = "awaitTranscript"
  /\ \E o \in TranscriptOutcomes :
       IF o.kind = "ok"
       THEN StartAnalysis(r, o.transcript, <<Event("transcript", "ok", o.transcript)>>)
       ELSE /\ Logged(r, <<Event("transcript", "error", <<>>), Call("metadata")>>)
            /\ pc' = [pc EXCEPT ![r] = "awaitFallback"]
            /\ UNCHANGED <<transcript, responses>>
  /\ UNCHANGED <<class, videoId, subtopics, videoData>>
  /\ UNCHANGED analyzerVars

\* The transcript call settles, server.js:50-54: with a transcript getTranscript
\* returns it; otherwise its catch block calls getYouTubeVideoData again.
TranscriptSettled(r) ==
  /\ pc[r] = "awaitTranscript"
  /\ \E o \in TranscriptOutcomes :
       IF o.kind = "ok" /\ o.transcript # <<>>
       THEN StartAnalysis(r, o.transcript, <<Event("transcript", "ok", o.transcript)>>)
       ELSE /\ Logged(r, <<Event("transcript", IF o.kind = "ok" THEN "empty" ELSE "error", <<>>),
                           Call("metadata")>>)
            /\ pc' = [pc EXCEPT ![r] = "awaitFallback"]
            /\ UNCHANGED <<transcript, responses>>
  /\ UNCHANGED <<class, videoId, subtopics, videoData>>
  /\ UNCHANGED analyzerVars

\* getTranscript with the error of its second metadata call swallowed.
FallbackSettledSwallowing(r) ==
  /\ pc[r] = "awaitFallback"
  /\ \E o \in MetadataOutcomes :
       IF getYouTubeVideoDataThrows(o)
       THEN StartAnalysis(r, NoTranscriptText, <<Event("metadata", o.kind, <<>>)>>)
       ELSE StartAnalysis(r,
                          IF getYouTubeVideoData(o).description # <<>>
                          THEN getYouTubeVideoData(o).description
                          ELSE NoTranscriptText,
                          <<Event("metadata", "ok", o.description)>>)
  /\ UNCHANGED <<class, videoId, subtopics, videoData>>
  /\ UNCHANGED analyzerVars

\* The metadata call of getTranscript's catch block settles, server.js:54-55.
\* Its error is not caught in getTranscript and reaches the handler's catch.
FallbackSettled(r) ==
  /\ pc[r] = "awaitFallback"
  /\ \E o \in MetadataOutcomes :
       IF getYouTubeVideoDataThrows(o)
       THEN /\ Logged(r, <<Event("metadata", o.kind, <<>>)>>)
            /\ Respond500(r, MetadataMessage(o))
            /\ pc' = [pc EXCEPT ![r] = "done"]
            /\ UNCHANGED transcript
       ELSE StartAnalysis(r,
                          IF getYouTubeVideoData(o).description # <<>>
                          THEN getYouTubeVideoData(o).description
                          ELSE NoTranscriptText,
                          <<Event("metadata", "ok", o.description)>>)
  /\ UNCHANGED <<class, videoId, subtopics, videoData>>
  /\ UNCHANGED analyzerVars

\* analyzeCoverage without its catch block: the error of callGroq reaches the
\* handler's catch.
CompletionSettledPropagating(r) ==
  /\ pc[r] = "awaitCompletion"
  /\ \E o \in ServerGroqOutcomes :
       /\ Logged(r, <<Event("completion", IF callGroqThrows(o) THEN "error" ELSE "ok",
                             o.content)>>)
       /\ IF callGroqThrows(o)
          THEN Respond500(r, "Request failed with status code 401")
          ELSE Respond(r, 200, SuccessBody(r, analyzeCoverage(subtopics[r], o)))
  /\ pc' = [pc EXCEPT ![r] = "done"]
  /\ UNCHANGED <<class, videoId, subtopics, videoData, transcript>>
  /\ UNCHANGED analyzerVars

\* The completion call settles; analyzeCoverage returns its report and the
\* handler answers, server.js:92-128 and 145-160.
CompletionSettled(r) ==
  /\ pc[r] = "awaitCompletion"
  /\ \E o \in ServerGroqOutcomes :
       /\ Logged(r, <<Event("completion", IF callGroqThrows(o) THEN "error" ELSE "ok",
                             o.content)>>)
       /\ Respond(r, 200, SuccessBody(r, analyzeCoverage(subtopics[r], o)))
  /\ pc' = [pc EXCEPT ![r] = "done"]
  /\ UNCHANGED <<class, videoId, subtopics, videoData, transcript>>
  /\ UNCHANGED analyzerVars

Init == ServerInit /\ AnalyzerIdle

Next ==
  \E r \in Reqs :
    \/ PostAnalyze(r)
    \/ MetadataSettled(r)
    \/ TranscriptSettled(r)
    \/ FallbackSettled(r)
    \/ CompletionSettled(r)

Spec == Init /\ [][Next]_vars

-----------------------------------------------------------------------------
(* Properties of analyzeCoverage, under AnalyzeSpec *)

Returned == aStage = "returned"

Entries == aReport.subtopicAnalysis

Scores == [i \in 1..Len(Entries) |-> Entries[i].coverageScore]

\* The try block ran to its return: the report is not the one of the catch block.
OnSuccessPath == Returned /\ aReport.summary # SummaryFailed

RECURSIVE SumSeq(_)
SumSeq(q) == IF q = <<>> THEN 0 ELSE Head(q) + SumSeq(Tail(q))

\* C1: for every non-empty list of subtopics and every outcome of the
\* completion call, the report's subtopicAnalysis is as long as the list and
\* its i-th entry carries the i-th label, duplicates kept.
C1_SameLengthAndOrder ==
  Returned =>
    /\ Len(Entries) = Len(aSubtopics)
    /\ \A i \in 1..Len(aSubtopics) : Entries[i].subtopic = aSubtopics[i]

\* A reply in which one of three labels, given twice, is not found.
C1_Witness ==
  /\ Returned
  /\ aOutcome = GroqReply(ReplyTopicsBC)
  /\ aSubtopics = <<TopicA, TopicA, TopicB>>
  /\ Len(Entries) = 3

\* C5 as claimed: every coverageScore, and the overallScore, is an integer in
\* 0..100, whatever the reply.
C5_ScoreWithin0To100 ==
  Returned =>
    /\ \A i \in 1..Len(Entries) : Entries[i].coverageScore \in 0..100
    /\ aReport.overallScore \in 0..100

\* C5 as amended: every coverageScore is a non-negative integer, 0 unless the
\* label was found with a score, and not bounded by 100; the overallScore is a
\* non-negative integer no larger than the largest coverageScore, so it is in
\* 0..100 whenever every coverageScore is.
C5_ScoreNonNegative ==
  Returned =>
    /\ \A i \in 1..Len(Entries) :
         /\ Entries[i].coverageScore \in Nat
         /\ Entries[i].evidence # EvidenceFound => Entries[i].coverageScore = 0
    /\ aReport.overallScore \in Nat
    /\ \E i \in 1..Len(Entries) : aReport.overallScore <= Entries[i].coverageScore
    /\ (\A i \in 1..Len(Entries) : Entries[i].coverageScore <= 100)
         => aReport.overallScore <= 100

\* A reply whose score is above 100, next to a label that is not found.
C5_Witness ==
  /\ Returned
  /\ aOutcome = GroqReply(ReplyOverRange)
  /\ aSubtopics = <<TopicA, TopicB>>
  /\ Scores = <<250, 0>>
  /\ aReport.overallScore = 125

RECURSIVE FirstOccurrence(_, _, _)
\* First position from p on at which label occurs in text as written, letter
\* case aside; 0 if there is none.
FirstOccurrence(label, text, p) ==
  IF p + Len(label) - 1 > Len(text) THEN 0
  ELSE IF LitAtI(text, p, label) THEN p
  ELSE FirstOccurrence(label, text, p + 1)

\* The digits of the first Score: with digits after the first occurrence of the
\* label, <<>> if there is none.
ScoreAfterLabel(label, text) ==
  LET p == FirstOccurrence(label, text, 1)
  IN  IF p = 0 THEN <<>> ELSE LazyScore(text, p + Len(label))

\* C6: when the completion call succeeds, each subtopic is scored from the
\* reply: with Score: and digits after the first occurrence of the label, the
\* score is the value of the first such digit run, covered is score >= 50 and
\* the evidence is "Evidence found in transcript."; otherwise 0, false and
\* "No evidence found.".
C6_ScoredFromReply ==
  (Returned /\ aOutcome.kind = "reply") =>
    \A i \in 1..Len(aSubtopics) :
      LET d == ScoreAfterLabel(aSubtopics[i], Trim(aOutcome.content))
      IN  Entries[i] =
            IF d # <<>>
            THEN [subtopic |-> aSubtopics[i], coverageScore |-> parseInt(d),
                  covered |-> parseInt(d) >= 50, evidence |-> "Evidence found in transcript."]
            ELSE [subtopic |-> aSubtopics[i], coverageScore |-> 0,
                  covered |-> FALSE, evidence |-> "No evidence found."]

\* C7: on the success path the overallScore is the mean of the coverage scores
\* rounded to the nearest integer, halves up: mean - 1/2 < overallScore <=
\* mean + 1/2; [0, 100, 50] gives 50, [33, 34] gives 34, [80, 30] gives 55 and a
\* single subtopic's overallScore is its own score.
C7_RoundedMean ==
  OnSuccessPath =>
    LET n == Len(Scores)
        total == SumSeq(Scores)
        overall == aReport.overallScore
    IN  /\ 2 * total - n < 2 * n * overall
        /\ 2 * n * overall <= 2 * total + n
        /\ Scores = <<0, 100, 50>> => overall = 50
        /\ Scores = <<33, 34>> => overall = 34
        /\ Scores = <<80, 30>> => overall = 55
        /\ n = 1 => overall = Scores[1]

\* The mean 33.5 is rounded.
C7_Witness ==
  /\ OnSuccessPath
  /\ aOutcome = GroqReply(ReplyPromptFormat)
  /\ Scores = <<33, 34>>
  /\ aReport.overallScore = 34

-----------------------------------------------------------------------------
(* Properties of the handler, under Spec *)

Has(r, e) == \E i \in 1..Len(log[r]) : log[r][i] = e

\* Some call of the service settled in the way named.
Settled(r, svc, what) ==
  \E i \in 1..Len(log[r]) : log[r][i][1] = svc /\ log[r][i][2] = what

Answered(r, code) == Len(responses[r]) = 1 /\ responses[r][1].status = code

\* getTranscript has returned to the handler.
TranscriptResolved(r) == Has(r, Call("completion"))

\* C2: when callGroq throws, analyzeCoverage returns the report with
\* overallScore 0, summary "Failed to generate coverage analysis." and every
\* subtopic at coverageScore 0, covered false, evidence "Failed to analyze
\* coverage.", and the request is answered 200 with success true, not 500.
C2_CompletionFailureDegrades ==
  \A r \in Reqs :
    Settled(r, "completion", "error") =>
      /\ Answered(r, 200)
      /\ responses[r][1].body.success = TRUE
      /\ LET a == responses[r][1].body.analysis
         IN  /\ a.overallScore = 0
             /\ a.summary = "Failed to generate coverage analysis."
             /\ Len(a.subtopicAnalysis) = Len(subtopics[r])
             /\ \A i \in 1..Len(subtopics[r]) :
                  a.subtopicAnalysis[i] =
                    [subtopic |-> subtopics[r][i], coverageScore |-> 0,
                     covered |-> FALSE, evidence |-> "Failed to analyze coverage."]

\* A request whose completion call failed after the transcript service had
\* answered, and which was answered.
C2_Witness ==
  \E r \in Reqs :
    /\ Settled(r, "completion", "error")
    /\ Settled(r, "transcript", "ok")
    /\ Answered(r, 200)
    /\ Len(subtopics[r]) = 2

\* C3: a request with youtubeUrl, topic or customSubtopics missing, with
\* customSubtopics empty, or with a youtubeUrl that yields no 11-character
\* identifier is answered 400 with an error body, and none of the external
\* services is called for it.
C3_InvalidRequestRejected ==
  \A r \in Reqs :
    class[r] \in {"missingField", "emptySubtopics", "noVideoId"} =>
      /\ Answered(r, 400)
      /\ DOMAIN responses[r][1].body = {"error"}
      /\ log[r] = <<>>

\* A request whose URL has no 11-character token was rejected, while another
\* request has its calls going.
C3_Witness ==
  \E r, q \in Reqs :
    /\ class[r] = "noVideoId"
    /\ Answered(r, 400)
    /\ responses[r][1].body.error = ErrorInvalidUrl
    /\ class[q] = "valid"
    /\ log[q] # <<>>

\* C4: for a request that passed validation, a metadata call that fails or
\* returns no items is answered 500 with the error's message and the fixed
\* details; no 200 is sent and the completion service is not called.
C4_UpstreamFailureIs500 ==
  \A r \in Reqs :
    (Settled(r, "metadata", "error") \/ Settled(r, "metadata", "noitems")) =>
      /\ Len(responses[r]) = 1
      /\ responses[r][1] =
           [status |-> 500,
            body |-> [error |-> IF Settled(r, "metadata", "error")
                                THEN "Request failed with status code 403"
                                ELSE "Video not found",
                      details |-> "Please check API keys and try again."]]
      /\ ~Has(r, Call("completion"))
      /\ log[r][Len(log[r])][1] = "metadata"

\* The metadata call made for the missing transcript found no video.
C4_Witness ==
  \E r \in Reqs :
    /\ Settled(r, "metadata", "ok")
    /\ Settled(r, "transcript", "empty")
    /\ Settled(r, "metadata", "noitems")
    /\ Answered(r, 500)

\* The text the transcript service returned, <<>> if it returned none.
ServiceTranscript(r) ==
  IF Settled(r, "transcript", "ok")
  THEN log[r][CHOOSE i \in 1..Len(log[r]) : log[r][i][1] = "transcript" /\ log[r][i][2] = "ok"][3]
  ELSE <<>>

TranscriptServiceFailed(r) ==
  Settled(r, "transcript", "error") \/ Settled(r, "transcript", "empty")

\* The calls to the metadata service that have settled, in order.
MetadataResults(r) ==
  SelectSeq(log[r], LAMBDA e : e[1] = "metadata" /\ e[2] # "call")

\* C8 as claimed: getTranscript returns the service's transcript when there is
\* one; whenever the service fails or has none it returns the description, or
\* "No transcript available." for an empty one, so the failure of the
\* transcript service never fails the request and the transcript is never
\* empty.
C8_TranscriptAlwaysResolved ==
  \A r \in Reqs :
    /\ Settled(r, "transcript", "ok") =>
         TranscriptResolved(r) /\ transcript[r] = ServiceTranscript(r)
    /\ (TranscriptServiceFailed(r) /\ pc[r] # "awaitFallback") =>
         /\ TranscriptResolved(r)
         /\ transcript[r] # <<>>
         /\ ~Answered(r, 500)

\* C8 as amended: getTranscript returns the service's transcript when there is
\* one.  When the service fails or has none it calls the metadata service a
\* second time: if that call succeeds it returns the description that call
\* gave, or "No transcript available." for an empty one; if that call fails
\* getTranscript throws and the request is answered 500.  A transcript it
\* returns is never empty.
C8_TranscriptFallback ==
  \A r \in Reqs :
    /\ Settled(r, "transcript", "ok") =>
         /\ TranscriptResolved(r)
         /\ transcript[r] = ServiceTranscript(r)
         /\ Len(MetadataResults(r)) = 1
    /\ (TranscriptServiceFailed(r) /\ pc[r] # "awaitFallback") =>
         /\ Len(MetadataResults(r)) = 2
         /\ LET second == MetadataResults(r)[2]
            IN  IF second[2] = "ok"
                THEN /\ TranscriptResolved(r)
                     /\ transcript[r] = IF second[3] # <<>> THEN second[3]
                                        ELSE NoTranscriptText
                ELSE /\ ~TranscriptResolved(r)
                     /\ Answered(r, 500)
    /\ TranscriptResolved(r) => transcript[r] # <<>>

\* The transcript service failed, the first metadata call gave a description
\* and the second an empty one.
C8_Witness ==
  \E r \in Reqs :
    /\ Settled(r, "transcript", "error")
    /\ Len(MetadataResults(r)) = 2
    /\ MetadataResults(r)[1][3] = DescriptionSample
    /\ MetadataResults(r)[2] = Event("metadata", "ok", <<>>)
    /\ transcript[r] = NoTranscriptText
    /\ Answered(r, 200)

\* C9: the external calls of one request are issued one at a time: no two are
\* outstanding together, the transcript call starts only after a metadata call
\* has succeeded, the completion call starts only after the transcript is
\* resolved, and no metadata or transcript call follows the completion call.
C9_CallsInSequence ==
  \A r \in Reqs :
    LET l == log[r]
        IsCall(i) == l[i][2] = "call"
    IN  /\ \A i \in 1..Len(l) :
             \* a call is issued only when none is outstanding, and the next
             \* event is its own settlement
             /\ IsCall(i) => (i = 1 \/ ~IsCall(i - 1))
             /\ ~IsCall(i) => (i > 1 /\ IsCall(i - 1) /\ l[i - 1][1] = l[i][1])
        /\ \A i \in 1..Len(l) :
             l[i] = Call("transcript") =>
               \E j \in 1..(i - 1) : l[j][1] = "metadata" /\ l[j][2] = "ok"
        /\ \A i \in 1..Len(l) :
             l[i] = Call("completion") =>
               \E j \in 1..(i - 1) :
                 \/ l[j][1] = "transcript" /\ l[j][2] = "ok"
                 \/ /\ l[j][1] = "metadata" /\ l[j][2] = "ok"
                    /\ \E k \in 1..(j - 1) :
                         l[k][1] = "transcript" /\ l[k][2] \in {"error", "empty"}
        /\ \A i, j \in 1..Len(l) :
             (l[i] = Call("completion") /\ j > i) => l[j][1] = "completion"
        /\ Len(l) > 0 => l[1] = Call("metadata")

\* Both requests have their completion call outstanding at once, one of them
\* after the second metadata call.
C9_Witness ==
  \E r, q \in Reqs :
    /\ r # q
    /\ pc[r] = "awaitCompletion"
    /\ pc[q] = "awaitCompletion"
    /\ Len(log[r]) = 5
    /\ Len(log[q]) = 7

\* What a request was given: the kind of its body, what the handler kept of it,
\* and how its external calls settled.
InputsOf(r) == <<class[r], videoId[r], subtopics[r], log[r]>>

\* C10: every request is answered exactly once, with 400, 200 or 500, once its
\* external calls have settled: never twice, and the handler never ends
\* without an answer; while it is unanswered it has exactly one call
\* outstanding.  With requests interleaved, the answer depends only on what
\* the request itself was given.
C10_ExactlyOneResponse ==
  /\ \A r \in Reqs :
       /\ Len(responses[r]) <= 1
       /\ pc[r] = "done" <=> Len(responses[r]) = 1
       /\ Len(responses[r]) = 1 => responses[r][1].status \in {400, 200, 500}
       /\ pc[r] = "idle" => log[r] = <<>>
       /\ pc[r] \notin {"idle", "done"} =>
            /\ Len(log[r]) > 0
            /\ log[r][Len(log[r])][2] = "call"
            /\ Cardinality({i \in 1..Len(log[r]) : log[r][i][2] = "call"})
                 = Cardinality({i \in 1..Len(log[r]) : log[r][i][2] # "call"}) + 1
  /\ \A r, q \in Reqs :
       (pc[r] = "done" /\ pc[q] = "done" /\ InputsOf(r) = InputsOf(q))
         => responses[r] = responses[q]

\* Two requests answered differently, 200 and 500, after interleaved calls.
C10_Witness ==
  \E r, q \in Reqs :
    /\ Answered(r, 200)
    /\ Answered(q, 500)
    /\ Settled(q, "transcript", "error")
    /\ Settled(r, "completion", "ok")

====
